---- MODULE Spec2Model ----
(***************************************************************************)
(* A model of calculator.py: the startup connectivity check, the bounded   *)
(* retry of the model-client construction in setup_chain, the interactive  *)
(* loop of main and the tool dispatch of invoke_tool.                      *)
(*                                                                         *)
(* The language model, the user and the Ollama server are the environment: *)
(* what they return or raise, and when the interrupt signal arrives, is    *)
(* chosen nondeterministically.  A line of text is a sequence of Unicode   *)
(* code points, so that str.strip and str.lower are computed, not assumed. *)
(***************************************************************************)
EXTENDS Integers, Sequences, FiniteSets, TLC

VARIABLES
    pc,          \* position of main: Idle, Setup, Sleeping, AwaitingInput, GotLine, Processing, Done, Exited, Crashed, Killed
    exitCode,    \* exit status of the process, NoExit while it runs
    stdout,      \* the lines printed so far, oldest first
    attempt,     \* setup_chain: the loop variable of `for attempt in range(max_retries)`
    constructs,  \* setup_chain: number of Ollama(...) constructions tried
    sleeps,      \* setup_chain: the arguments of the time.sleep calls made, oldest first
    inputCalls,  \* number of input(...) calls made
    line,        \* the value input(...) returned, before .strip().lower()
    user_input,  \* main's local user_input
    stage,       \* position inside chain.invoke: prompt, model, parse, dispatch; print after it returned
    modelCalls,  \* number of times the chain called the model
    modelText,   \* the model's raw output of the running request
    request,     \* the parsed tool call request of the running request
    toolInvokes, \* number of requested_tool.invoke calls made by invoke_tool
    result,      \* main's local result
    probe,       \* what the connectivity probe of check_ollama_connection did
    requests,    \* number of chain.invoke calls made by main
    exc          \* the exception raised inside the try block and not yet handled

vars == <<pc, exitCode, stdout, attempt, constructs, sleeps, inputCalls, line,
          user_input, stage, modelCalls, modelText, request, toolInvokes, result,
          probe, requests, exc>>

----------------------------------------------------------------------------
(* Bounds of the model. *)

\* number of input(...) calls a run may make
MaxInputs == 2
\* longest run of whitespace put before and after a typed word
MaxPad == 1
\* tool arguments range over -MaxArg..MaxArg when invoke_tool is checked alone
MaxArg == 3

----------------------------------------------------------------------------
(* Program constants. *)

max_retries == 3
retry_delay == 2

\* exitCode while the process has not ended; a process that the interrupt
\* signal ended has the status 130 (128 + SIGINT)
NoExit == -1

\* values of variables that hold nothing yet
Unset == <<0 - 1>>
NoValue == [unset |-> TRUE]

----------------------------------------------------------------------------
(* Text: str.strip and str.lower on sequences of code points, for every   *)
(* code point of Unicode 14.0.0, the character database of the            *)
(* interpreter (CPython 3.11) the program was run with.                   *)

\* the code points c with chr(c).isspace(), which str.strip() removes:
\* \t \n \v \f \r, FS GS RS US, space, NEL, NBSP and the Unicode spaces
Whitespace ==
    (9..13) \cup (28..32) \cup {133, 160, 5760} \cup (8192..8202)
    \cup {8232, 8233, 8239, 8287, 12288}

\* str.lower above ASCII, one code point to one code point: <<first, last,
\* step, d>> says that c + d is the lower case of every c = first, first + step,
\* ..., last
LowerRanges ==
    { <<192, 214, 1, 32>>, <<216, 222, 1, 32>>, <<256, 302, 2, 1>>,
      <<306, 310, 2, 1>>, <<313, 327, 2, 1>>, <<330, 374, 2, 1>>,
      <<376, 376, 1, -121>>, <<377, 381, 2, 1>>, <<385, 385, 1, 210>>,
      <<386, 388, 2, 1>>, <<390, 390, 1, 206>>, <<391, 391, 1, 1>>,
      <<393, 394, 1, 205>>, <<395, 395, 1, 1>>, <<398, 398, 1, 79>>,
      <<399, 399, 1, 202>>, <<400, 400, 1, 203>>, <<401, 401, 1, 1>>,
      <<403, 403, 1, 205>>, <<404, 404, 1, 207>>, <<406, 406, 1, 211>>,
      <<407, 407, 1, 209>>, <<408, 408, 1, 1>>, <<412, 412, 1, 211>>,
      <<413, 413, 1, 213>>, <<415, 415, 1, 214>>, <<416, 420, 2, 1>>,
      <<422, 422, 1, 218>>, <<423, 423, 1, 1>>, <<425, 425, 1, 218>>,
      <<428, 428, 1, 1>>, <<430, 430, 1, 218>>, <<431, 431, 1, 1>>,
      <<433, 434, 1, 217>>, <<435, 437, 2, 1>>, <<439, 439, 1, 219>>,
      <<440, 440, 1, 1>>, <<444, 444, 1, 1>>, <<452, 452, 1, 2>>,
      <<453, 453, 1, 1>>, <<455, 455, 1, 2>>, <<456, 456, 1, 1>>,
      <<458, 458, 1, 2>>, <<459, 475, 2, 1>>, <<478, 494, 2, 1>>,
      <<497, 497, 1, 2>>, <<498, 500, 2, 1>>, <<502, 502, 1, -97>>,
      <<503, 503, 1, -56>>, <<504, 542, 2, 1>>, <<544, 544, 1, -130>>,
      <<546, 562, 2, 1>>, <<570, 570, 1, 10795>>, <<571, 571, 1, 1>>,
      <<573, 573, 1, -163>>, <<574, 574, 1, 10792>>, <<577, 577, 1, 1>>,
      <<579, 579, 1, -195>>, <<580, 580, 1, 69>>, <<581, 581, 1, 71>>,
      <<582, 590, 2, 1>>, <<880, 882, 2, 1>>, <<886, 886, 1, 1>>,
      <<895, 895, 1, 116>>, <<902, 902, 1, 38>>, <<904, 906, 1, 37>>,
      <<908, 908, 1, 64>>, <<910, 911, 1, 63>>, <<913, 929, 1, 32>>,
      <<931, 939, 1, 32>>, <<975, 975, 1, 8>>, <<984, 1006, 2, 1>>,
      <<1012, 1012, 1, -60>>, <<1015, 1015, 1, 1>>, <<1017, 1017, 1, -7>>,
      <<1018, 1018, 1, 1>>, <<1021, 1023, 1, -130>>, <<1024, 1039, 1, 80>>,
      <<1040, 1071, 1, 32>>, <<1120, 1152, 2, 1>>, <<1162, 1214, 2, 1>>,
      <<1216, 1216, 1, 15>>, <<1217, 1229, 2, 1>>, <<1232, 1326, 2, 1>>,
      <<1329, 1366, 1, 48>>, <<4256, 4293, 1, 7264>>,
      <<4295, 4295, 1, 7264>>, <<4301, 4301, 1, 7264>>,
      <<5024, 5103, 1, 38864>>, <<5104, 5109, 1, 8>>,
      <<7312, 7354, 1, -3008>>, <<7357, 7359, 1, -3008>>,
      <<7680, 7828, 2, 1>>, <<7838, 7838, 1, -7615>>, <<7840, 7934, 2, 1>>,
      <<7944, 7951, 1, -8>>, <<7960, 7965, 1, -8>>, <<7976, 7983, 1, -8>>,
      <<7992, 7999, 1, -8>>, <<8008, 8013, 1, -8>>, <<8025, 8031, 2, -8>>,
      <<8040, 8047, 1, -8>>, <<8072, 8079, 1, -8>>, <<8088, 8095, 1, -8>>,
      <<8104, 8111, 1, -8>>, <<8120, 8121, 1, -8>>, <<8122, 8123, 1, -74>>,
      <<8124, 8124, 1, -9>>, <<8136, 8139, 1, -86>>, <<8140, 8140, 1, -9>>,
      <<8152, 8153, 1, -8>>, <<8154, 8155, 1, -100>>, <<8168, 8169, 1, -8>>,
      <<8170, 8171, 1, -112>>, <<8172, 8172, 1, -7>>,
      <<8184, 8185, 1, -128>>, <<8186, 8187, 1, -126>>,
      <<8188, 8188, 1, -9>>, <<8486, 8486, 1, -7517>>,
      <<8490, 8490, 1, -8383>>, <<8491, 8491, 1, -8262>>,
      <<8498, 8498, 1, 28>>, <<8544, 8559, 1, 16>>, <<8579, 8579, 1, 1>>,
      <<9398, 9423, 1, 26>>, <<11264, 11311, 1, 48>>, <<11360, 11360, 1, 1>>,
      <<11362, 11362, 1, -10743>>, <<11363, 11363, 1, -3814>>,
      <<11364, 11364, 1, -10727>>, <<11367, 11371, 2, 1>>,
      <<11373, 11373, 1, -10780>>, <<11374, 11374, 1, -10749>>,
      <<11375, 11375, 1, -10783>>, <<11376, 11376, 1, -10782>>,
      <<11378, 11378, 1, 1>>, <<11381, 11381, 1, 1>>,
      <<11390, 11391, 1, -10815>>, <<11392, 11490, 2, 1>>,
      <<11499, 11501, 2, 1>>, <<11506, 11506, 1, 1>>, <<42560, 42604, 2, 1>>,
      <<42624, 42650, 2, 1>>, <<42786, 42798, 2, 1>>, <<42802, 42862, 2, 1>>,
      <<42873, 42875, 2, 1>>, <<42877, 42877, 1, -35332>>,
      <<42878, 42886, 2, 1>>, <<42891, 42891, 1, 1>>,
      <<42893, 42893, 1, -42280>>, <<42896, 42898, 2, 1>>,
      <<42902, 42920, 2, 1>>, <<42922, 42922, 1, -42308>>,
      <<42923, 42923, 1, -42319>>, <<42924, 42924, 1, -42315>>,
      <<42925, 42925, 1, -42305>>, <<42926, 42926, 1, -42308>>,
      <<42928, 42928, 1, -42258>>, <<42929, 42929, 1, -42282>>,
      <<42930, 42930, 1, -42261>>, <<42931, 42931, 1, 928>>,
      <<42932, 42946, 2, 1>>, <<42948, 42948, 1, -48>>,
      <<42949, 42949, 1, -42307>>, <<42950, 42950, 1, -35384>>,
      <<42951, 42953, 2, 1>>, <<42960, 42960, 1, 1>>, <<42966, 42968, 2, 1>>,
      <<42997, 42997, 1, 1>>, <<65313, 65338, 1, 32>>,
      <<66560, 66599, 1, 40>>, <<66736, 66771, 1, 40>>,
      <<66928, 66964, 2, 39>>, <<66929, 66937, 2, 39>>,
      <<66941, 66953, 2, 39>>, <<66957, 66961, 2, 39>>,
      <<66965, 66965, 1, 39>>, <<68736, 68786, 1, 64>>,
      <<71840, 71871, 1, 32>>, <<93760, 93791, 1, 32>>,
      <<125184, 125217, 1, 34>> }

\* the code points str.lower skips when it looks for the neighbours of a
\* capital sigma (case-ignorable), as <<first, last>>
CaseIgnorableRanges ==
    { <<39, 39>>, <<46, 46>>, <<58, 58>>, <<94, 94>>, <<96, 96>>,
      <<168, 168>>, <<173, 173>>, <<175, 175>>, <<180, 180>>, <<183, 184>>,
      <<688, 879>>, <<884, 885>>, <<890, 890>>, <<900, 901>>, <<903, 903>>,
      <<1155, 1161>>, <<1369, 1369>>, <<1375, 1375>>, <<1425, 1469>>,
      <<1471, 1471>>, <<1473, 1474>>, <<1476, 1477>>, <<1479, 1479>>,
      <<1524, 1524>>, <<1536, 1541>>, <<1552, 1562>>, <<1564, 1564>>,
      <<1600, 1600>>, <<1611, 1631>>, <<1648, 1648>>, <<1750, 1757>>,
      <<1759, 1768>>, <<1770, 1773>>, <<1807, 1807>>, <<1809, 1809>>,
      <<1840, 1866>>, <<1958, 1968>>, <<2027, 2037>>, <<2042, 2042>>,
      <<2045, 2045>>, <<2070, 2093>>, <<2137, 2139>>, <<2184, 2184>>,
      <<2192, 2193>>, <<2200, 2207>>, <<2249, 2306>>, <<2362, 2362>>,
      <<2364, 2364>>, <<2369, 2376>>, <<2381, 2381>>, <<2385, 2391>>,
      <<2402, 2403>>, <<2417, 2417>>, <<2433, 2433>>, <<2492, 2492>>,
      <<2497, 2500>>, <<2509, 2509>>, <<2530, 2531>>, <<2558, 2558>>,
      <<2561, 2562>>, <<2620, 2620>>, <<2625, 2626>>, <<2631, 2632>>,
      <<2635, 2637>>, <<2641, 2641>>, <<2672, 2673>>, <<2677, 2677>>,
      <<2689, 2690>>, <<2748, 2748>>, <<2753, 2757>>, <<2759, 2760>>,
      <<2765, 2765>>, <<2786, 2787>>, <<2810, 2815>>, <<2817, 2817>>,
      <<2876, 2876>>, <<2879, 2879>>, <<2881, 2884>>, <<2893, 2893>>,
      <<2901, 2902>>, <<2914, 2915>>, <<2946, 2946>>, <<3008, 3008>>,
      <<3021, 3021>>, <<3072, 3072>>, <<3076, 3076>>, <<3132, 3132>>,
      <<3134, 3136>>, <<3142, 3144>>, <<3146, 3149>>, <<3157, 3158>>,
      <<3170, 3171>>, <<3201, 3201>>, <<3260, 3260>>, <<3263, 3263>>,
      <<3270, 3270>>, <<3276, 3277>>, <<3298, 3299>>, <<3328, 3329>>,
      <<3387, 3388>>, <<3393, 3396>>, <<3405, 3405>>, <<3426, 3427>>,
      <<3457, 3457>>, <<3530, 3530>>, <<3538, 3540>>, <<3542, 3542>>,
      <<3633, 3633>>, <<3636, 3642>>, <<3654, 3662>>, <<3761, 3761>>,
      <<3764, 3772>>, <<3782, 3782>>, <<3784, 3789>>, <<3864, 3865>>,
      <<3893, 3893>>, <<3895, 3895>>, <<3897, 3897>>, <<3953, 3966>>,
      <<3968, 3972>>, <<3974, 3975>>, <<3981, 3991>>, <<3993, 4028>>,
      <<4038, 4038>>, <<4141, 4144>>, <<4146, 4151>>, <<4153, 4154>>,
      <<4157, 4158>>, <<4184, 4185>>, <<4190, 4192>>, <<4209, 4212>>,
      <<4226, 4226>>, <<4229, 4230>>, <<4237, 4237>>, <<4253, 4253>>,
      <<4348, 4348>>, <<4957, 4959>>, <<5906, 5908>>, <<5938, 5939>>,
      <<5970, 5971>>, <<6002, 6003>>, <<6068, 6069>>, <<6071, 6077>>,
      <<6086, 6086>>, <<6089, 6099>>, <<6103, 6103>>, <<6109, 6109>>,
      <<6155, 6159>>, <<6211, 6211>>, <<6277, 6278>>, <<6313, 6313>>,
      <<6432, 6434>>, <<6439, 6440>>, <<6450, 6450>>, <<6457, 6459>>,
      <<6679, 6680>>, <<6683, 6683>>, <<6742, 6742>>, <<6744, 6750>>,
      <<6752, 6752>>, <<6754, 6754>>, <<6757, 6764>>, <<6771, 6780>>,
      <<6783, 6783>>, <<6823, 6823>>, <<6832, 6862>>, <<6912, 6915>>,
      <<6964, 6964>>, <<6966, 6970>>, <<6972, 6972>>, <<6978, 6978>>,
      <<7019, 7027>>, <<7040, 7041>>, <<7074, 7077>>, <<7080, 7081>>,
      <<7083, 7085>>, <<7142, 7142>>, <<7144, 7145>>, <<7149, 7149>>,
      <<7151, 7153>>, <<7212, 7219>>, <<7222, 7223>>, <<7288, 7293>>,
      <<7376, 7378>>, <<7380, 7392>>, <<7394, 7400>>, <<7405, 7405>>,
      <<7412, 7412>>, <<7416, 7417>>, <<7468, 7530>>, <<7544, 7544>>,
      <<7579, 7679>>, <<8125, 8125>>, <<8127, 8129>>, <<8141, 8143>>,
      <<8157, 8159>>, <<8173, 8175>>, <<8189, 8190>>, <<8203, 8207>>,
      <<8216, 8217>>, <<8228, 8228>>, <<8231, 8231>>, <<8234, 8238>>,
      <<8288, 8292>>, <<8294, 8303>>, <<8305, 8305>>, <<8319, 8319>>,
      <<8336, 8348>>, <<8400, 8432>>, <<11388, 11389>>, <<11503, 11505>>,
      <<11631, 11631>>, <<11647, 11647>>, <<11744, 11775>>, <<11823, 11823>>,
      <<12293, 12293>>, <<12330, 12333>>, <<12337, 12341>>, <<12347, 12347>>,
      <<12441, 12446>>, <<12540, 12542>>, <<40981, 40981>>, <<42232, 42237>>,
      <<42508, 42508>>, <<42607, 42610>>, <<42612, 42621>>, <<42623, 42623>>,
      <<42652, 42655>>, <<42736, 42737>>, <<42752, 42785>>, <<42864, 42864>>,
      <<42888, 42890>>, <<42994, 42996>>, <<43000, 43001>>, <<43010, 43010>>,
      <<43014, 43014>>, <<43019, 43019>>, <<43045, 43046>>, <<43052, 43052>>,
      <<43204, 43205>>, <<43232, 43249>>, <<43263, 43263>>, <<43302, 43309>>,
      <<43335, 43345>>, <<43392, 43394>>, <<43443, 43443>>, <<43446, 43449>>,
      <<43452, 43453>>, <<43471, 43471>>, <<43493, 43494>>, <<43561, 43566>>,
      <<43569, 43570>>, <<43573, 43574>>, <<43587, 43587>>, <<43596, 43596>>,
      <<43632, 43632>>, <<43644, 43644>>, <<43696, 43696>>, <<43698, 43700>>,
      <<43703, 43704>>, <<43710, 43711>>, <<43713, 43713>>, <<43741, 43741>>,
      <<43756, 43757>>, <<43763, 43764>>, <<43766, 43766>>, <<43867, 43871>>,
      <<43881, 43883>>, <<44005, 44005>>, <<44008, 44008>>, <<44013, 44013>>,
      <<64286, 64286>>, <<64434, 64450>>, <<65024, 65039>>, <<65043, 65043>>,
      <<65056, 65071>>, <<65106, 65106>>, <<65109, 65109>>, <<65279, 65279>>,
      <<65287, 65287>>, <<65294, 65294>>, <<65306, 65306>>, <<65342, 65342>>,
      <<65344, 65344>>, <<65392, 65392>>, <<65438, 65439>>, <<65507, 65507>>,
      <<65529, 65531>>, <<66045, 66045>>, <<66272, 66272>>, <<66422, 66426>>,
      <<67456, 67461>>, <<67463, 67504>>, <<67506, 67514>>, <<68097, 68099>>,
      <<68101, 68102>>, <<68108, 68111>>, <<68152, 68154>>, <<68159, 68159>>,
      <<68325, 68326>>, <<68900, 68903>>, <<69291, 69292>>, <<69446, 69456>>,
      <<69506, 69509>>, <<69633, 69633>>, <<69688, 69702>>, <<69744, 69744>>,
      <<69747, 69748>>, <<69759, 69761>>, <<69811, 69814>>, <<69817, 69818>>,
      <<69821, 69821>>, <<69826, 69826>>, <<69837, 69837>>, <<69888, 69890>>,
      <<69927, 69931>>, <<69933, 69940>>, <<70003, 70003>>, <<70016, 70017>>,
      <<70070, 70078>>, <<70089, 70092>>, <<70095, 70095>>, <<70191, 70193>>,
      <<70196, 70196>>, <<70198, 70199>>, <<70206, 70206>>, <<70367, 70367>>,
      <<70371, 70378>>, <<70400, 70401>>, <<70459, 70460>>, <<70464, 70464>>,
      <<70502, 70508>>, <<70512, 70516>>, <<70712, 70719>>, <<70722, 70724>>,
      <<70726, 70726>>, <<70750, 70750>>, <<70835, 70840>>, <<70842, 70842>>,
      <<70847, 70848>>, <<70850, 70851>>, <<71090, 71093>>, <<71100, 71101>>,
      <<71103, 71104>>, <<71132, 71133>>, <<71219, 71226>>, <<71229, 71229>>,
      <<71231, 71232>>, <<71339, 71339>>, <<71341, 71341>>, <<71344, 71349>>,
      <<71351, 71351>>, <<71453, 71455>>, <<71458, 71461>>, <<71463, 71467>>,
      <<71727, 71735>>, <<71737, 71738>>, <<71995, 71996>>, <<71998, 71998>>,
      <<72003, 72003>>, <<72148, 72151>>, <<72154, 72155>>, <<72160, 72160>>,
      <<72193, 72202>>, <<72243, 72248>>, <<72251, 72254>>, <<72263, 72263>>,
      <<72273, 72278>>, <<72281, 72283>>, <<72330, 72342>>, <<72344, 72345>>,
      <<72752, 72758>>, <<72760, 72765>>, <<72767, 72767>>, <<72850, 72871>>,
      <<72874, 72880>>, <<72882, 72883>>, <<72885, 72886>>, <<73009, 73014>>,
      <<73018, 73018>>, <<73020, 73021>>, <<73023, 73029>>, <<73031, 73031>>,
      <<73104, 73105>>, <<73109, 73109>>, <<73111, 73111>>, <<73459, 73460>>,
      <<78896, 78904>>, <<92912, 92916>>, <<92976, 92982>>, <<92992, 92995>>,
      <<94031, 94031>>, <<94095, 94111>>, <<94176, 94177>>, <<94179, 94180>>,
      <<110576, 110579>>, <<110581, 110587>>, <<110589, 110590>>,
      <<113821, 113822>>, <<113824, 113827>>, <<118528, 118573>>,
      <<118576, 118598>>, <<119143, 119145>>, <<119155, 119170>>,
      <<119173, 119179>>, <<119210, 119213>>, <<119362, 119364>>,
      <<121344, 121398>>, <<121403, 121452>>, <<121461, 121461>>,
      <<121476, 121476>>, <<121499, 121503>>, <<121505, 121519>>,
      <<122880, 122886>>, <<122888, 122904>>, <<122907, 122913>>,
      <<122915, 122916>>, <<122918, 122922>>, <<123184, 123197>>,
      <<123566, 123566>>, <<123628, 123631>>, <<125136, 125142>>,
      <<125252, 125259>>, <<127995, 127999>>, <<917505, 917505>>,
      <<917536, 917631>>, <<917760, 917999>> }

\* the code points that are cased and not case-ignorable, as <<first, last>>
CasedRanges ==
    { <<65, 90>>, <<97, 122>>, <<170, 170>>, <<181, 181>>, <<186, 186>>,
      <<192, 214>>, <<216, 246>>, <<248, 442>>, <<444, 447>>, <<452, 659>>,
      <<661, 687>>, <<880, 883>>, <<886, 887>>, <<891, 893>>, <<895, 895>>,
      <<902, 902>>, <<904, 906>>, <<908, 908>>, <<910, 929>>, <<931, 1013>>,
      <<1015, 1153>>, <<1162, 1327>>, <<1329, 1366>>, <<1376, 1416>>,
      <<4256, 4293>>, <<4295, 4295>>, <<4301, 4301>>, <<4304, 4346>>,
      <<4349, 4351>>, <<5024, 5109>>, <<5112, 5117>>, <<7296, 7304>>,
      <<7312, 7354>>, <<7357, 7359>>, <<7424, 7467>>, <<7531, 7543>>,
      <<7545, 7578>>, <<7680, 7957>>, <<7960, 7965>>, <<7968, 8005>>,
      <<8008, 8013>>, <<8016, 8023>>, <<8025, 8025>>, <<8027, 8027>>,
      <<8029, 8029>>, <<8031, 8061>>, <<8064, 8116>>, <<8118, 8124>>,
      <<8126, 8126>>, <<8130, 8132>>, <<8134, 8140>>, <<8144, 8147>>,
      <<8150, 8155>>, <<8160, 8172>>, <<8178, 8180>>, <<8182, 8188>>,
      <<8450, 8450>>, <<8455, 8455>>, <<8458, 8467>>, <<8469, 8469>>,
      <<8473, 8477>>, <<8484, 8484>>, <<8486, 8486>>, <<8488, 8488>>,
      <<8490, 8493>>, <<8495, 8500>>, <<8505, 8505>>, <<8508, 8511>>,
      <<8517, 8521>>, <<8526, 8526>>, <<8544, 8575>>, <<8579, 8580>>,
      <<9398, 9449>>, <<11264, 11387>>, <<11390, 11492>>, <<11499, 11502>>,
      <<11506, 11507>>, <<11520, 11557>>, <<11559, 11559>>, <<11565, 11565>>,
      <<42560, 42605>>, <<42624, 42651>>, <<42786, 42863>>, <<42865, 42887>>,
      <<42891, 42894>>, <<42896, 42954>>, <<42960, 42961>>, <<42963, 42963>>,
      <<42965, 42969>>, <<42997, 42998>>, <<43002, 43002>>, <<43824, 43866>>,
      <<43872, 43880>>, <<43888, 43967>>, <<64256, 64262>>, <<64275, 64279>>,
      <<65313, 65338>>, <<65345, 65370>>, <<66560, 66639>>, <<66736, 66771>>,
      <<66776, 66811>>, <<66928, 66938>>, <<66940, 66954>>, <<66956, 66962>>,
      <<66964, 66965>>, <<66967, 66977>>, <<66979, 66993>>, <<66995, 67001>>,
      <<67003, 67004>>, <<68736, 68786>>, <<68800, 68850>>, <<71840, 71903>>,
      <<93760, 93823>>, <<119808, 119892>>, <<119894, 119964>>,
      <<119966, 119967>>, <<119970, 119970>>, <<119973, 119974>>,
      <<119977, 119980>>, <<119982, 119993>>, <<119995, 119995>>,
      <<119997, 120003>>, <<120005, 120069>>, <<120071, 120074>>,
      <<120077, 120084>>, <<120086, 120092>>, <<120094, 120121>>,
      <<120123, 120126>>, <<120128, 120132>>, <<120134, 120134>>,
      <<120138, 120144>>, <<120146, 120485>>, <<120488, 120512>>,
      <<120514, 120538>>, <<120540, 120570>>, <<120572, 120596>>,
      <<120598, 120628>>, <<120630, 120654>>, <<120656, 120686>>,
      <<120688, 120712>>, <<120714, 120744>>, <<120746, 120770>>,
      <<120772, 120779>>, <<122624, 122633>>, <<122635, 122654>>,
      <<125184, 125251>>, <<127280, 127305>>, <<127312, 127337>>,
      <<127344, 127369>> }

InRanges(c, ranges) == \E r \in ranges : r[1] <= c /\ c <= r[2]

IsCaseIgnorable(c) == InRanges(c, CaseIgnorableRanges)

\* asked of code points that are not case-ignorable only
IsCased(c) == InRanges(c, CasedRanges)

\* chr(c).lower(), as a sequence: A-Z move by 32, the code points of
\* LowerRanges by their d, and capital I with dot above becomes i and a
\* combining dot
LowerChar(c) ==
    IF c < 128 THEN (IF c \in 65..90 THEN <<c + 32>> ELSE <<c>>)
    ELSE IF c = 304 THEN <<105, 775>>
    ELSE LET hit == {r \in LowerRanges :
                        r[1] <= c /\ c <= r[2] /\ (c - r[1]) % r[3] = 0}
         IN  IF hit = {} THEN <<c>> ELSE <<c + (CHOOSE r \in hit : TRUE)[4]>>

\* the last index at or below j of a code point that is not case-ignorable, or 0
RECURSIVE PrevSignificant(_, _)
PrevSignificant(s, j) ==
    IF j = 0 THEN 0
    ELSE IF IsCaseIgnorable(s[j]) THEN PrevSignificant(s, j - 1) ELSE j

\* the first index at or above j of a code point that is not case-ignorable,
\* or Len(s) + 1
RECURSIVE NextSignificant(_, _)
NextSignificant(s, j) ==
    IF j > Len(s) THEN j
    ELSE IF IsCaseIgnorable(s[j]) THEN NextSignificant(s, j + 1) ELSE j

\* the capital sigma at s[i] ends a word: a cased letter stands before it and
\* none after it
FinalSigma(s, i) ==
    LET p == PrevSignificant(s, i - 1)
        n == NextSignificant(s, i + 1)
    IN  /\ p > 0
        /\ IsCased(s[p])
        /\ n > Len(s) \/ ~IsCased(s[n])

\* the lower case of s[i] inside s: a capital sigma that ends a word becomes
\* the final sigma
LowerAt(s, i) ==
    IF s[i] = 931 /\ FinalSigma(s, i) THEN <<962>> ELSE LowerChar(s[i])

RECURSIVE LowerFrom(_, _)
LowerFrom(s, i) ==
    IF i > Len(s) THEN <<>> ELSE LowerAt(s, i) \o LowerFrom(s, i + 1)

lower(s) == LowerFrom(s, 1)

RECURSIVE lstrip(_)
lstrip(s) ==
    IF s # <<>> /\ Head(s) \in Whitespace THEN lstrip(Tail(s)) ELSE s

RECURSIVE rstrip(_)
rstrip(s) ==
    IF s # <<>> /\ s[Len(s)] \in Whitespace
    THEN rstrip(SubSeq(s, 1, Len(s) - 1))
    ELSE s

strip(s) == rstrip(lstrip(s))

\* 'exit'
ExitKeyword == <<101, 120, 105, 116>>

\* `user_input == 'exit'` of main
IsExit(u) == u = ExitKeyword

\* a variant of Normalize that forgets .lower()
Normalize_NoLower(l) == strip(l)

\* input(...).strip().lower()
Normalize(l) == lower(strip(l))

----------------------------------------------------------------------------
(* The tools and invoke_tool. *)

multiply(x, y) == x * y

add(x, y) == x + y

\* tool_name_to_tool, as the set of its keys
ToolNames == {"multiply", "add"}

\* the argument schema built from the signature (x, y) requires both parameters
ArgsAccepted(args) == {"x", "y"} \subseteq DOMAIN args

\* a variant of CallTool with the two registry entries exchanged
CallTool_Swapped(name, args) ==
    IF name = "multiply" THEN add(args.x, args.y) ELSE multiply(args.x, args.y)

CallTool(name, args) ==
    IF name = "multiply" THEN multiply(args.x, args.y) ELSE add(args.x, args.y)

\* invoke_tool: what it returns or raises, and whether requested_tool.invoke ran
invoke_tool(req) ==
    IF "name" \notin DOMAIN req
    THEN [type |-> "KeyError", raised |-> "'name'", invoked |-> FALSE]
    ELSE IF req.name \notin ToolNames
    THEN [type |-> "KeyError", raised |-> "'" \o req.name \o "'", invoked |-> FALSE]
    ELSE IF "arguments" \notin DOMAIN req
    THEN [type |-> "KeyError", raised |-> "'arguments'", invoked |-> FALSE]
    ELSE IF ~ArgsAccepted(req.arguments)
    THEN [type |-> "ValidationError", raised |-> "validation error", invoked |-> TRUE]
    ELSE [value |-> CallTool(req.name, req.arguments), invoked |-> TRUE]

----------------------------------------------------------------------------
(* The environment: what the user types and what the model answers. *)

\* the whitespace typed around a word: space, tab, and the carriage return
\* that input(...) leaves of a line ending in \r\n
PadChars == {32, 9, 13}

\* runs of whitespace of length at most MaxPad
RECURSIVE PadsOfLen(_)
PadsOfLen(n) ==
    IF n = 0 THEN {<<>>}
    ELSE {<<c>> \o p : c \in PadChars, p \in PadsOfLen(n - 1)}

Pads == UNION {PadsOfLen(n) : n \in 0..MaxPad}

\* 5*3, the request typed in the runs below
FiveTimesThree == <<53, 42, 51>>

Words ==
    { <<101, 120, 105, 116>>,       \* exit
      <<69, 88, 73, 84>>,           \* EXIT
      <<69, 120, 105, 84>>,         \* ExiT
      <<160, 69, 88, 105, 116, 12>>, \* EXit after a no-break space, before a form feed
      <<69, 88, 304, 84>>,          \* EX?T with capital I with dot above
      <<101, 120, 105, 116, 115>>,  \* exits
      <<101, 120, 32, 105, 116>>,   \* ex it
      <<65, 100, 100, 32, 50>>,     \* Add 2
      <<376, 65, 931>>,             \* Y with diaeresis, A, capital sigma
      FiveTimesThree,
      <<>> }

\* the lines input(...) may return
Lines == {l \o w \o r : l \in Pads, w \in Words, r \in Pads}

\* argument mappings the model may emit: the two of the documented examples,
\* and two that lack a parameter
SampleArgs ==
    { [x |-> 5, y |-> 3], [x |-> 10, y |-> 20], [x |-> 5], [y |-> 3] }

\* tool call requests the model may emit as a JSON object
SampleRequests ==
    {[name |-> n, arguments |-> a] : n \in {"multiply", "add", "subtract"}, a \in SampleArgs}
    \cup {[name |-> n] : n \in {"multiply", "add"}}
    \cup {[arguments |-> a] : a \in {[x |-> 5, y |-> 3]}}

\* raw outputs of the model: text that is no JSON, JSON that is no object,
\* and JSON objects
ModelTexts ==
    { [fmt |-> "text"], [fmt |-> "json-scalar"] }
    \cup {[fmt |-> "json-object", obj |-> r] : r \in SampleRequests}

\* JsonOutputParser, then the input check of RunnablePassthrough.assign
JsonOutputParser(text) ==
    IF text.fmt = "text" THEN [type |-> "OutputParserException", raised |-> "Invalid json output"]
    ELSE IF text.fmt = "json-scalar" THEN [type |-> "AssertionError", raised |-> "input is not a mapping"]
    ELSE [value |-> text.obj]

----------------------------------------------------------------------------
(* Printing. *)

Print0(k) == [k |-> k]
PrintMsg(k, m) == [k |-> k, m |-> m]
PrintVal(k, v) == [k |-> k, v |-> v]

\* lines 20-25: the diagnostic of check_ollama_connection
Diagnostic(m) ==
    << Print0("Error connecting to Ollama. Please ensure:"),
       Print0("1. WSL2 is installed and running"),
       Print0("2. Ubuntu is installed in WSL2"),
       Print0("3. Ollama is installed in Ubuntu"),
       Print0("4. Ollama server is running"),
       PrintMsg("Error details: ", m) >>

\* lines 104-106
Banner ==
    << Print0("Calculator ready!"),
       Print0("Enter calculations"),
       Print0("Type 'exit' to quit") >>

Prompt == Print0("Enter calculation: ")

\* lines 121-122: what the handler of `except Exception as e` prints
ErrorReport(m) ==
    << PrintMsg("Error: ", m),
       Print0("Please try again with a different calculation.") >>

\* line 118: what the handler of `except KeyboardInterrupt` prints
Farewell == << Print0("Exiting calculator...") >>

----------------------------------------------------------------------------
(* The state after the interpreter has loaded the module, before main runs. *)

Init ==
    /\ pc = "Idle"
    /\ exitCode = NoExit
    /\ stdout = <<>>
    /\ attempt = 0
    /\ constructs = 0
    /\ sleeps = <<>>
    /\ inputCalls = 0
    /\ line = Unset
    /\ user_input = Unset
    /\ stage = "none"
    /\ modelCalls = 0
    /\ modelText = NoValue
    /\ request = NoValue
    /\ toolInvokes = 0
    /\ result = NoValue
    /\ probe = "none"
    /\ requests = 0
    /\ exc = NoValue

----------------------------------------------------------------------------
(* Startup: check_ollama_connection and setup_chain. *)

setupVars == <<attempt, constructs, sleeps, probe>>
chainVars == <<stage, modelCalls, modelText, request, toolInvokes, result>>
loopVars == <<inputCalls, line, user_input, requests, exc>>

\* what Ollama(model="phi") followed by model.invoke("test") may do
ProbeOutcomes == {"ok", "constructor raised", "invoke raised"}

\* a variant of check_ollama_connection that returns True from the handler too
check_ollama_connection_Always(o) == TRUE

\* check_ollama_connection: True unless the try block raised
check_ollama_connection(o) == o = "ok"

\* main, lines 99-102
Startup ==
    /\ pc = "Idle"
    /\ \E o \in ProbeOutcomes :
        /\ probe' = o
        /\ IF check_ollama_connection(o)
           THEN /\ stdout' = stdout \o << Print0("Initializing calculator...") >>
                /\ pc' = "Setup"
                /\ exitCode' = exitCode
           ELSE /\ stdout' = stdout \o Diagnostic(o)
                /\ pc' = "Exited"
                /\ exitCode' = 1
    /\ UNCHANGED <<attempt, constructs, sleeps, chainVars, loopVars>>

\* a variant of LastAttempt that compares with max_retries
LastAttempt_OffByOne(a) == a = max_retries

\* main, line 99: the interrupt signal arrives while the probe of lines 15-17
\* runs; `except Exception` of line 19 does not take KeyboardInterrupt, which
\* leaves main uncaught: nothing is printed and the signal ends the process
StartupInterrupt ==
    /\ pc = "Idle"
    /\ probe' = "interrupted"
    /\ pc' = "Killed"
    /\ exitCode' = 130
    /\ UNCHANGED <<stdout, attempt, constructs, sleeps, chainVars, loopVars>>

\* `if attempt == max_retries - 1`
LastAttempt(a) == a = max_retries - 1

\* setup_chain, one pass of the loop of lines 48-56 whose construction succeeds:
\* break, build the chain, return to main, lines 104-106
SetupSucceeds ==
    /\ pc = "Setup"
    /\ attempt \in 0..(max_retries - 1)
    /\ constructs' = constructs + 1
    /\ stdout' = stdout \o Banner
    /\ pc' = "AwaitingInput"
    /\ UNCHANGED <<exitCode, attempt, sleeps, probe, chainVars, loopVars>>

\* a variant of SetupFails in which the last failure is reported the way the
\* loop reports a request's failure, and main goes on
SetupFails_Caught ==
    /\ pc = "Setup"
    /\ attempt \in 0..(max_retries - 1)
    /\ constructs' = constructs + 1
    /\ IF attempt = max_retries - 1
       THEN /\ pc' = "AwaitingInput"
            /\ stdout' = stdout \o ErrorReport("Failed to initialize Ollama after 3 attempts")
            /\ UNCHANGED <<exitCode, sleeps, attempt>>
       ELSE \* lines 55-56: the report, then time.sleep(retry_delay) is entered
            /\ stdout' = Append(stdout, PrintVal("Attempt failed, retrying", attempt + 1))
            /\ sleeps' = Append(sleeps, retry_delay)
            /\ pc' = "Sleeping"
            /\ UNCHANGED <<exitCode, attempt>>
    /\ UNCHANGED <<probe, chainVars, loopVars>>

\* setup_chain, lines 48-56: the construction of line 50 raises; the last
\* attempt raises the terminal Exception, an earlier one reports and goes to
\* sleep with the loop variable still at this pass
SetupFails ==
    /\ pc = "Setup"
    /\ attempt \in 0..(max_retries - 1)
    /\ constructs' = constructs + 1
    /\ IF LastAttempt(attempt)
       THEN \* the Exception of line 54 leaves setup_chain and main uncaught
            /\ pc' = "Crashed"
            /\ exitCode' = 1
            /\ UNCHANGED <<stdout, sleeps, attempt>>
       ELSE \* lines 55-56: the report, then time.sleep(retry_delay) is entered
            /\ stdout' = Append(stdout, PrintVal("Attempt failed, retrying", attempt + 1))
            /\ sleeps' = Append(sleeps, retry_delay)
            /\ pc' = "Sleeping"
            /\ UNCHANGED <<exitCode, attempt>>
    /\ UNCHANGED <<probe, chainVars, loopVars>>

\* setup_chain, lines 56 and 48: time.sleep returns and the for loop takes the
\* next value of range(max_retries)
SleepReturns ==
    /\ pc = "Sleeping"
    /\ attempt' = attempt + 1
    /\ pc' = "Setup"
    /\ UNCHANGED <<exitCode, stdout, constructs, sleeps, probe, chainVars, loopVars>>

\* setup_chain, line 50: the interrupt signal arrives during the construction;
\* `except Exception` of line 52 does not take KeyboardInterrupt, which leaves
\* setup_chain and main uncaught
SetupInterrupt ==
    /\ pc = "Setup"
    /\ attempt \in 0..(max_retries - 1)
    /\ constructs' = constructs + 1
    /\ pc' = "Killed"
    /\ exitCode' = 130
    /\ UNCHANGED <<stdout, attempt, sleeps, probe, chainVars, loopVars>>

\* setup_chain, line 56: the interrupt signal arrives during time.sleep, inside
\* the handler of line 52; the loop variable has not advanced
SleepInterrupt ==
    /\ pc = "Sleeping"
    /\ pc' = "Killed"
    /\ exitCode' = 130
    /\ UNCHANGED <<stdout, attempt, constructs, sleeps, probe, chainVars, loopVars>>

----------------------------------------------------------------------------
(* The interactive loop of main: the try block, lines 110-115. *)

\* `raise`: the exception leaves the statement that raised it
Raise(type, msg) == exc' = [type |-> type, msg |-> msg]

\* line 110: input(...) prints its prompt and returns a line
InputLine ==
    /\ pc = "AwaitingInput"
    /\ exc = NoValue
    /\ inputCalls < MaxInputs
    /\ inputCalls' = inputCalls + 1
    /\ stdout' = Append(stdout, Prompt)
    /\ \E l \in Lines : line' = l
    /\ pc' = "GotLine"
    /\ UNCHANGED <<exitCode, setupVars, chainVars, user_input, requests, exc>>

\* line 110: input(...) prints its prompt and raises EOFError
InputEOF ==
    /\ pc = "AwaitingInput"
    /\ exc = NoValue
    /\ inputCalls < MaxInputs
    /\ inputCalls' = inputCalls + 1
    /\ stdout' = Append(stdout, Prompt)
    /\ Raise("EOFError", "EOF when reading a line")
    /\ UNCHANGED <<pc, exitCode, setupVars, chainVars, line, user_input, requests>>

\* line 110: the interrupt signal arrives while input(...) waits
InputInterrupt ==
    /\ pc = "AwaitingInput"
    /\ exc = NoValue
    /\ inputCalls < MaxInputs
    /\ inputCalls' = inputCalls + 1
    /\ stdout' = Append(stdout, Prompt)
    /\ Raise("KeyboardInterrupt", "")
    /\ UNCHANGED <<pc, exitCode, setupVars, chainVars, line, user_input, requests>>

\* lines 110-114: .strip().lower(), the comparison with 'exit', then break
\* (main returns) or the call of chain.invoke
HandleLine ==
    /\ pc = "GotLine"
    /\ user_input' = Normalize(line)
    /\ line' = Unset
    /\ IF IsExit(user_input')
       THEN /\ pc' = "Done"
            /\ exitCode' = 0
            /\ UNCHANGED <<stage, requests>>
       ELSE /\ pc' = "Processing"
            /\ stage' = "prompt"
            /\ requests' = requests + 1
            /\ exitCode' = exitCode
    /\ UNCHANGED <<stdout, setupVars, inputCalls, modelCalls, modelText, request,
                   toolInvokes, result, exc>>

\* line 76: the prompt template is filled with the input
FormatPrompt ==
    /\ pc = "Processing"
    /\ exc = NoValue
    /\ stage = "prompt"
    /\ stage' = "model"
    /\ UNCHANGED <<pc, exitCode, stdout, setupVars, loopVars, modelCalls, modelText,
                   request, toolInvokes, result>>

\* line 77: the model answers
ModelReplies ==
    /\ pc = "Processing"
    /\ exc = NoValue
    /\ stage = "model"
    /\ modelCalls' = modelCalls + 1
    /\ \E t \in ModelTexts : modelText' = t
    /\ stage' = "parse"
    /\ UNCHANGED <<pc, exitCode, stdout, setupVars, loopVars, request, toolInvokes,
                   result>>

\* a variant of ModelRaises that sends the request again instead of raising
ModelRaises_Retry ==
    /\ pc = "Processing"
    /\ exc = NoValue
    /\ stage = "model"
    /\ modelCalls' = modelCalls + 1
    /\ UNCHANGED <<pc, exitCode, stdout, setupVars, loopVars, stage, modelText,
                   request, toolInvokes, result>>

\* line 77: the call of the model raises (the server is gone)
ModelRaises ==
    /\ pc = "Processing"
    /\ exc = NoValue
    /\ stage = "model"
    /\ modelCalls' = modelCalls + 1
    /\ Raise("ConnectionError", "connection refused")
    /\ UNCHANGED <<pc, exitCode, stdout, setupVars, inputCalls, line, user_input,
                   requests, stage, modelText, request, toolInvokes, result>>

\* line 78: the output parser
ParseOutput ==
    /\ pc = "Processing"
    /\ exc = NoValue
    /\ stage = "parse"
    /\ LET r == JsonOutputParser(modelText) IN
       IF "raised" \in DOMAIN r
       THEN /\ Raise(r.type, r.raised)
            /\ UNCHANGED <<stage, request>>
       ELSE /\ request' = r.value
            /\ stage' = "dispatch"
            /\ exc' = exc
    /\ UNCHANGED <<pc, exitCode, stdout, setupVars, inputCalls, line, user_input,
                   requests, modelCalls, modelText, toolInvokes, result>>

\* line 79: RunnablePassthrough.assign(output=invoke_tool); chain.invoke
\* returns and line 114 assigns result
Dispatch ==
    /\ pc = "Processing"
    /\ exc = NoValue
    /\ stage = "dispatch"
    /\ LET r == invoke_tool(request) IN
       /\ toolInvokes' = toolInvokes + (IF r.invoked THEN 1 ELSE 0)
       /\ IF "raised" \in DOMAIN r
          THEN /\ Raise(r.type, r.raised)
               /\ UNCHANGED <<stage, modelText, request, result>>
          ELSE /\ result' = [name |-> request.name, arguments |-> request.arguments,
                             output |-> r.value]
               /\ stage' = "print"
               /\ modelText' = NoValue
               /\ request' = NoValue
               /\ exc' = exc
    /\ UNCHANGED <<pc, exitCode, stdout, setupVars, inputCalls, line, user_input,
                   requests, modelCalls>>

\* line 115, then the next pass of the loop
PrintResult ==
    /\ pc = "Processing"
    /\ exc = NoValue
    /\ stage = "print"
    /\ stdout' = Append(stdout, PrintVal("Result: ", result.output))
    /\ pc' = "AwaitingInput"
    /\ stage' = "none"
    /\ UNCHANGED <<exitCode, setupVars, loopVars, modelCalls, modelText, request,
                   toolInvokes, result>>

\* lines 114-115: the interrupt signal arrives while the request is processed
InterruptRequest ==
    /\ pc = "Processing"
    /\ exc = NoValue
    /\ Raise("KeyboardInterrupt", "")
    /\ UNCHANGED <<pc, exitCode, stdout, setupVars, inputCalls, line, user_input,
                   requests, chainVars>>

----------------------------------------------------------------------------
(* The interactive loop of main: the except clauses, lines 117-122. *)

\* the classes `except Exception` matches, among those raised here
ExceptionClasses ==
    {"EOFError", "ConnectionError", "OutputParserException", "AssertionError",
     "KeyError", "ValidationError"}

\* a variant of ExceptKeyboardInterrupt without the break
ExceptKeyboardInterrupt_Continue ==
    /\ stdout' = stdout \o Farewell
    /\ pc' = "AwaitingInput"
    /\ exitCode' = exitCode

\* lines 117-119: the body of `except KeyboardInterrupt`: break, main returns
ExceptKeyboardInterrupt ==
    /\ stdout' = stdout \o Farewell
    /\ pc' = "Done"
    /\ exitCode' = 0

\* a variant of ExceptException that raises again, so that main ends
ExceptException_Reraise(m) ==
    /\ stdout' = stdout \o ErrorReport(m)
    /\ pc' = "Crashed"
    /\ exitCode' = 1

\* lines 120-122: the body of `except Exception as e`, then the next pass
ExceptException(m) ==
    /\ stdout' = stdout \o ErrorReport(m)
    /\ pc' = "AwaitingInput"
    /\ exitCode' = exitCode

\* a variant of Except whose second clause is `except BaseException`, placed first
Except_BaseException ==
    /\ pc \in {"AwaitingInput", "Processing"}
    /\ exc # NoValue
    /\ ExceptException(exc.msg)
    /\ exc' = NoValue
    /\ stage' = "none"
    /\ modelText' = NoValue
    /\ request' = NoValue
    /\ UNCHANGED <<setupVars, inputCalls, line, user_input, requests, modelCalls,
                   toolInvokes, result>>

\* lines 117-122: the except clause that matches takes the exception; the
\* values of the chain's steps are gone with the frames that held them
Except ==
    /\ pc \in {"AwaitingInput", "Processing"}
    /\ exc # NoValue
    /\ IF exc.type = "KeyboardInterrupt"
       THEN ExceptKeyboardInterrupt
       ELSE IF exc.type \in ExceptionClasses
       THEN ExceptException(exc.msg)
       ELSE /\ pc' = "Crashed"
            /\ exitCode' = 1
            /\ stdout' = stdout
    /\ exc' = NoValue
    /\ stage' = "none"
    /\ modelText' = NoValue
    /\ request' = NoValue
    /\ UNCHANGED <<setupVars, inputCalls, line, user_input, requests, modelCalls,
                   toolInvokes, result>>

Next ==
    \/ Startup
    \/ StartupInterrupt
    \/ SetupSucceeds
    \/ SetupFails
    \/ SleepReturns
    \/ SetupInterrupt
    \/ SleepInterrupt
    \/ InputLine
    \/ InputEOF
    \/ InputInterrupt
    \/ HandleLine
    \/ FormatPrompt
    \/ ModelReplies
    \/ ModelRaises
    \/ ParseOutput
    \/ Dispatch
    \/ PrintResult
    \/ InterruptRequest
    \/ Except

Spec == Init /\ [][Next]_vars

----------------------------------------------------------------------------
(* invoke_tool alone: the chain stands at its dispatch step with a request  *)
(* drawn from a range of arguments.                                        *)

ToolArgs ==
    {[x |-> a, y |-> b] : a, b \in (0 - MaxArg)..MaxArg}
    \cup {[x |-> 5, y |-> 3], [x |-> 10, y |-> 20]}

ToolRequests ==
    {[name |-> n, arguments |-> a] :
        n \in {"multiply", "add", "subtract", "divide"}, a \in ToolArgs}

InitTool ==
    /\ pc = "Processing"
    /\ exitCode = NoExit
    /\ stdout = << Print0("Initializing calculator...") >> \o Banner \o << Prompt >>
    /\ attempt = 0
    /\ constructs = 1
    /\ sleeps = <<>>
    /\ inputCalls = 1
    /\ line = Unset
    /\ user_input = FiveTimesThree
    /\ stage = "dispatch"
    /\ modelCalls = 1
    /\ request \in ToolRequests
    /\ modelText = [fmt |-> "json-object", obj |-> request]
    /\ toolInvokes = 0
    /\ result = NoValue
    /\ probe = "ok"
    /\ requests = 1
    /\ exc = NoValue

NextTool ==
    \/ Dispatch
    \/ PrintResult
    \/ Except

SpecTool == InitTool /\ [][NextTool]_vars

----------------------------------------------------------------------------
(* Vocabulary of the properties. *)

\* the states of the interactive loop
LoopStates == {"AwaitingInput", "GotLine", "Processing"}

\* the states in which the process has ended
EndStates == {"Done", "Exited", "Crashed", "Killed"}

\* number of printed lines of kind k
Count(k) == Cardinality({i \in DOMAIN stdout : stdout[i].k = k})

\* out ends with the lines t
EndsWith(out, t) ==
    /\ Len(out) >= Len(t)
    /\ SubSeq(out, Len(out) - Len(t) + 1, Len(out)) = t

\* out is old followed by the two lines of an error report
ReportsError(old, out) ==
    /\ Len(out) = Len(old) + 2
    /\ SubSeq(out, 1, Len(old)) = old
    /\ out[Len(old) + 1].k = "Error: "
    /\ out[Len(old) + 2].k = "Please try again with a different calculation."

\* out is old followed by one result line
ReportsResult(old, out) ==
    /\ Len(out) = Len(old) + 1
    /\ SubSeq(out, 1, Len(old)) = old
    /\ out[Len(old) + 1].k = "Result: "

\* out is old followed by the farewell line
SaysFarewell(old, out) ==
    /\ Len(out) = Len(old) + 1
    /\ SubSeq(out, 1, Len(old)) = old
    /\ out[Len(old) + 1].k = "Exiting calculator..."

\* c is a whitespace character: a control character of the ranges \t..\r and
\* FS..US, the space, NEL, the no-break space or a Unicode space separator
IsSpace(c) ==
    \/ 9 <= c /\ c <= 13
    \/ 28 <= c /\ c <= 32
    \/ c = 133 \/ c = 160 \/ c = 5760
    \/ 8192 <= c /\ c <= 8202
    \/ c = 8232 \/ c = 8233 \/ c = 8239 \/ c = 8287 \/ c = 12288

\* l is the word exit in any letter case between two runs of whitespace
IsExitLine(l) ==
    \E i \in 1..Len(l) :
        /\ i + 3 <= Len(l)
        /\ \A j \in 1..(i - 1) : IsSpace(l[j])
        /\ \A j \in (i + 4)..Len(l) : IsSpace(l[j])
        /\ l[i] \in {101, 69}
        /\ l[i + 1] \in {120, 88}
        /\ l[i + 2] \in {105, 73}
        /\ l[i + 3] \in {116, 84}

\* l holds nothing but whitespace
IsBlankLine(l) == \A j \in 1..Len(l) : IsSpace(l[j])

\* an exception other than the interrupt is in flight inside the try block
FailureRaised == exc # NoValue /\ exc.type # "KeyboardInterrupt"

\* the interrupt is in flight inside the try block
InterruptRaised == exc # NoValue /\ exc.type = "KeyboardInterrupt"

\* the model's output of the running request is no JSON object
BadModelText == modelText.fmt \in {"text", "json-scalar"}

\* the parsed request names no registered tool, or lacks the tool's arguments
BadRequest ==
    \/ "name" \notin DOMAIN request
    \/ request.name \notin {"multiply", "add"}
    \/ "arguments" \notin DOMAIN request
    \/ "x" \notin DOMAIN request.arguments
    \/ "y" \notin DOMAIN request.arguments

----------------------------------------------------------------------------
(* The properties. *)

\* C1: a failure of a request (model output that is no JSON, a tool name that
\* is not registered, arguments the tool rejects, any other Exception) raises
\* inside the try block without ending the process, and the handler prints
\* 'Error: <message>' then 'Please try again with a different calculation.'
\* and returns the loop to AwaitingInput; the process has not exited.
C1_FailuresAreReported ==
    [][ /\ (pc \in {"AwaitingInput", "Processing"} /\ FailureRaised) =>
              /\ pc' = "AwaitingInput"
              /\ exitCode' = NoExit
              /\ exc' = NoValue
              /\ ReportsError(stdout, stdout')
              /\ stdout'[Len(stdout) + 1].m = exc.msg
        /\ (pc = "Processing" /\ exc = NoValue /\ stage = "parse" /\ BadModelText) =>
              /\ pc' = "Processing"
              /\ exitCode' = NoExit
              /\ exc' # NoValue
        /\ (pc = "Processing" /\ exc = NoValue /\ stage = "dispatch" /\ BadRequest) =>
              /\ pc' = "Processing"
              /\ exitCode' = NoExit
              /\ exc' # NoValue
        /\ (pc = "Processing" /\ exc = NoValue /\ stage = "model") =>
              /\ pc' = "Processing"
              /\ exitCode' = NoExit
      ]_vars

\* C1, its case: two requests have failed, both were reported, and the loop
\* awaits input again.
C1_Witness ==
    /\ pc = "AwaitingInput"
    /\ exc = NoValue
    /\ exitCode = NoExit
    /\ requests = 2
    /\ Count("Error: ") = 2
    /\ Count("Result: ") = 0

\* C2, as stated: Processing never moves directly to Done, an interrupt
\* during the request included.
C2_ProcessingNeverDone == [][pc = "Processing" => pc' # "Done"]_vars

\* C2, amended: from Processing the loop goes to AwaitingInput after printing
\* exactly one result line or one error report, and prints nothing while it
\* stays in Processing; unless the interrupt was raised during the request:
\* then it prints 'Exiting calculator...' and goes to Done with exit code 0.
C2_ProcessingEnds ==
    [][ pc = "Processing" =>
          \/ pc' = "Processing" /\ stdout' = stdout
          \/ /\ ~InterruptRaised
             /\ pc' = "AwaitingInput"
             /\ exitCode' = NoExit
             /\ \/ ReportsResult(stdout, stdout') /\ exc = NoValue
                \/ ReportsError(stdout, stdout') /\ FailureRaised
          \/ /\ InterruptRaised
             /\ pc' = "Done"
             /\ exitCode' = 0
             /\ SaysFarewell(stdout, stdout')
      ]_vars

\* C2, its case: the interrupt arrived after the model had been called for
\* the request, and the process ended from Processing.
C2_Witness ==
    /\ pc = "Done"
    /\ exitCode = 0
    /\ user_input = FiveTimesThree
    /\ modelCalls = 1
    /\ Count("Result: ") = 0
    /\ Count("Error: ") = 0
    /\ EndsWith(stdout, << Prompt >> \o Farewell)

\* C3: a line that is the word exit in any letter case between whitespace
\* ends the loop and the process with exit code 0, the model is not called
\* for it, and nothing happens after Done.
C3_ExitEndsLoop ==
    [][ /\ (pc = "GotLine" /\ IsExitLine(line)) =>
              /\ pc' = "Done"
              /\ exitCode' = 0
              /\ modelCalls' = modelCalls
              /\ requests' = requests
        /\ (pc = "Done" /\ user_input = ExitKeyword) => vars' = vars
      ]_vars

\* C3, its case: exit was typed after a request had been processed.
C3_Witness ==
    /\ pc = "Done"
    /\ exitCode = 0
    /\ user_input = ExitKeyword
    /\ inputCalls = 2
    /\ requests = 1
    /\ modelCalls = 1

\* C4: after a failed probe the process has exit code 1 and has gone no
\* further (no construction in setup_chain, no input read, no model call); the
\* loop is entered only after the probe and the chain setup succeeded.
C4_StartupGate ==
    /\ probe \in {"constructor raised", "invoke raised"} =>
          /\ pc = "Exited"
          /\ exitCode = 1
          /\ constructs = 0
          /\ inputCalls = 0
          /\ modelCalls = 0
          /\ Count("Calculator ready!") = 0
    /\ pc \in LoopStates =>
          /\ probe = "ok"
          /\ constructs = Len(sleeps) + 1
          /\ Count("Calculator ready!") = 1

\* C4, its case: the probe's invocation raised and the process has ended.
C4_Witness ==
    /\ probe = "invoke raised"
    /\ pc = "Exited"
    /\ exitCode = 1
    /\ Count("Error details: ") = 1

\* C5: at most 3 constructions are tried, none after the first success; the
\* sleeps are of 2, one after each failure that another attempt follows, so at
\* most 2; the terminal error is raised exactly when the third attempt fails,
\* and nothing is tried after it.
C5_BoundedRetry ==
    /\ [](/\ constructs <= 3
          /\ Len(sleeps) <= 2
          /\ \A i \in DOMAIN sleeps : sleeps[i] = 2
          /\ pc \in {"Setup", "Sleeping"} => Len(sleeps) = constructs
          /\ pc = "Setup" => attempt = constructs
          /\ pc = "Sleeping" => attempt = constructs - 1
          /\ pc \in LoopStates \cup {"Done"} => constructs = Len(sleeps) + 1
          /\ pc = "Crashed" => constructs = 3 /\ Len(sleeps) = 2)
    /\ [][ /\ (pc = "Setup" /\ constructs = 2 /\ constructs' = 3
                 /\ pc' # "Killed" /\ stdout' # stdout \o Banner) => pc' = "Crashed"
           /\ (pc = "Setup" /\ constructs < 2 /\ constructs' = constructs + 1
                 /\ pc' # "Killed" /\ stdout' # stdout \o Banner) =>
                    pc' = "Sleeping" /\ sleeps' = Append(sleeps, 2)
           /\ pc = "Sleeping" /\ pc' # "Killed" /\ pc' # pc =>
                    pc' = "Setup" /\ attempt' = attempt + 1
           /\ pc # "Setup" => constructs' = constructs /\ sleeps' = sleeps
         ]_vars

\* C5, its case: three constructions failed, with two sleeps between them.
C5_Witness ==
    /\ pc = "Crashed"
    /\ constructs = 3
    /\ sleeps = <<2, 2>>

\* C6: the third failed construction ends main with the exception uncaught:
\* no error report of the loop is printed, the loop is not entered, no input
\* is read, and nothing happens afterwards.
C6_InitFailureIsTerminal ==
    /\ [](pc = "Crashed" =>
            /\ inputCalls = 0
            /\ requests = 0
            /\ exitCode # 0
            /\ Count("Error: ") = 0
            /\ Count("Please try again with a different calculation.") = 0
            /\ Count("Calculator ready!") = 0)
    /\ [][ /\ (pc = "Setup" /\ attempt = 2 /\ constructs' # constructs
                 /\ pc' # "Killed" /\ stdout' # stdout \o Banner) =>
                    /\ pc' = "Crashed"
                    /\ stdout' = stdout
                    /\ exc' = NoValue
           /\ pc = "Crashed" => vars' = vars
         ]_vars

\* C6, its case: the initialization failed for good after a successful probe.
C6_Witness ==
    /\ pc = "Crashed"
    /\ probe = "ok"
    /\ attempt = 2
    /\ inputCalls = 0
    /\ Count("Attempt failed, retrying") = 2

\* C7: at the dispatch step a request named multiply yields x*y and one named
\* add yields x+y, each through one invocation of the tool; a request with a
\* name outside the registry raises KeyError and no tool is invoked.
C7_Dispatch ==
    [][ (pc = "Processing" /\ exc = NoValue /\ stage = "dispatch") =>
          /\ request.name = "multiply" =>
                /\ exc' = NoValue
                /\ stage' = "print"
                /\ result'.output = request.arguments.x * request.arguments.y
                /\ toolInvokes' = toolInvokes + 1
          /\ request.name = "add" =>
                /\ exc' = NoValue
                /\ stage' = "print"
                /\ result'.output = request.arguments.x + request.arguments.y
                /\ toolInvokes' = toolInvokes + 1
          /\ request.name \notin {"multiply", "add"} =>
                /\ exc' # NoValue
                /\ exc'.type = "KeyError"
                /\ toolInvokes' = toolInvokes
                /\ result' = result
      ]_vars

\* C7, its case: multiply of 5 and 3 has returned 15.
C7_Witness ==
    /\ stage = "print"
    /\ result = [name |-> "multiply", arguments |-> [x |-> 5, y |-> 3], output |-> 15]
    /\ toolInvokes = 1

\* C8: an interrupt raised while input(...) waits ends the loop: the program
\* prints 'Exiting calculator...', reads no input and calls no model any more,
\* and the exit code is 0; Done is entered only by the exit keyword or by an
\* interrupt.
C8_InterruptEndsLoop ==
    [][ /\ (pc = "AwaitingInput" /\ InterruptRaised) =>
              /\ pc' = "Done"
              /\ exitCode' = 0
              /\ SaysFarewell(stdout, stdout')
        /\ pc = "Done" => vars' = vars
        /\ (pc # "Done" /\ pc' = "Done") =>
              \/ pc = "GotLine" /\ IsExitLine(line)
              \/ pc \in {"AwaitingInput", "Processing"} /\ InterruptRaised
      ]_vars

\* C8, its case: the first line was processed and its result printed, and the
\* second input(...) was interrupted.
C8_Witness ==
    /\ pc = "Done"
    /\ exitCode = 0
    /\ inputCalls = 2
    /\ requests = 1
    /\ Count("Result: ") = 1
    /\ Count("Error: ") = 0
    /\ EndsWith(stdout, << Prompt >> \o Farewell)

\* C9, as stated: a line that is empty after trimming starts no request and
\* the model is not called for it.
C9_BlankLineStartsNoRequest ==
    [][ /\ (pc = "GotLine" /\ IsBlankLine(line)) =>
              pc' # "Processing" /\ requests' = requests
        /\ modelCalls' # modelCalls => user_input # <<>>
      ]_vars

\* C10: a request passes the steps prompt, model, parse, dispatch, print in
\* this order and once: the model is called at most once per request, a tool
\* is invoked only on the parsed output of the model, a result line is printed
\* only after the dispatch returned, and input is read only when every request
\* so far has printed its result or its error.
C10_Pipeline ==
    /\ [](/\ modelCalls <= requests
          /\ requests <= inputCalls
          /\ toolInvokes <= modelCalls
          /\ Count("Result: ") <= toolInvokes)
    /\ [][ /\ stage' # stage =>
                <<stage, stage'>> \in
                    { <<"none", "prompt">>, <<"prompt", "model">>, <<"model", "parse">>,
                      <<"parse", "dispatch">>, <<"dispatch", "print">>,
                      <<"prompt", "none">>, <<"model", "none">>, <<"parse", "none">>,
                      <<"dispatch", "none">>, <<"print", "none">> }
           /\ modelCalls' # modelCalls =>
                stage = "model" /\ modelCalls' = modelCalls + 1 /\ exc = NoValue
           /\ toolInvokes' # toolInvokes =>
                /\ stage = "dispatch"
                /\ modelText.fmt = "json-object"
                /\ request = modelText.obj
           /\ Len(stdout') > Len(stdout) /\ stdout'[Len(stdout')].k = "Result: " =>
                /\ stage = "print"
                /\ "output" \in DOMAIN result
                /\ stdout'[Len(stdout')].v = result.output
           /\ inputCalls' # inputCalls =>
                /\ pc = "AwaitingInput"
                /\ stage = "none"
                /\ exc = NoValue
                /\ Count("Result: ") + Count("Error: ") >= requests
         ]_vars

\* C10, its case: two requests ran, one printed its result and the other its
\* error, with one call of the model each.
C10_Witness ==
    /\ pc = "AwaitingInput"
    /\ exc = NoValue
    /\ requests = 2
    /\ modelCalls = 2
    /\ toolInvokes = 1
    /\ Count("Result: ") = 1
    /\ Count("Error: ") = 1

====
